---------------------------- MODULE Spec2Model ----------------------------
(***************************************************************************)
(* FitCalc: the conversation wizard of src/bot.py.                         *)
(*                                                                         *)
(* The program keeps, per (chat, user), the state of the                   *)
(* ConversationHandler (one of the six steps, or no conversation), and     *)
(* per user the dictionary context.user_data, holding "current_step" and   *)
(* the answers stored so far.  Every update (a command or a text message)  *)
(* is routed by the ConversationHandler built in main() to one handler,    *)
(* which runs to completion.                                               *)
(*                                                                         *)
(* A text is a sequence of characters (one-character strings; an emoji is  *)
(* one element, written "<name>").  int() and float() are modelled on      *)
(* these sequences: surrounding blanks, a sign, decimal digits, a decimal  *)
(* point, an exponent, and the words nan / inf / infinity.  A decimal      *)
(* number is kept exactly, as mantissa m and number of fraction digits d   *)
(* (value m / 10^d); digit separators ("1_0") and digits outside 0-9 are   *)
(* left out.  The arithmetic of the calculation is exact as well: the      *)
(* rounding of binary floating point is modelled only where round(x, 1)    *)
(* meets a quotient halfway between two tenths.                            *)
(*                                                                         *)
(* The storage calls of database.py may raise (sqlite3 errors); bot.py     *)
(* catches nothing, so an exception leaves the handler where it was        *)
(* raised, and the ConversationHandler then keeps the state it had.        *)
(***************************************************************************)
EXTENDS Integers, Sequences, FiniteSets, TLC

VARIABLES conv, user_data, sent, db, calc, last

vars == <<conv, user_data, sent, db, calc, last>>

---------------------------------------------------------------------------
(* Steps: GENDER, AGE, WEIGHT, HEIGHT, ACTIVITY, GOAL = range(6)           *)

GENDER == 0

AGE == 1

WEIGHT == 2

HEIGHT == 3

ACTIVITY == 4

GOAL == 5

\* ConversationHandler.END; a conversation that ended (or never began) has
\* no state, which is written END here.
END == -1

STEP_ORDER == <<GENDER, AGE, WEIGHT, HEIGHT, ACTIVITY, GOAL>>

Steps == {STEP_ORDER[i] : i \in 1..Len(STEP_ORDER)}

STEP_NAMES ==
    [s \in Steps |->
        CASE s = GENDER -> "gender"
          [] s = AGE -> "age"
          [] s = WEIGHT -> "weight"
          [] s = HEIGHT -> "height"
          [] s = ACTIVITY -> "activity"
          [] s = GOAL -> "goal"]

\* The prompt each ask_* function sends; each returns its own step.
ASK_STEP ==
    [s \in Steps |->
        CASE s = GENDER -> "ask_gender"
          [] s = AGE -> "ask_age"
          [] s = WEIGHT -> "ask_weight"
          [] s = HEIGHT -> "ask_height"
          [] s = ACTIVITY -> "ask_activity"
          [] s = GOAL -> "ask_goal"]

---------------------------------------------------------------------------
(* The texts of the keyboards.                                             *)

RestartToken ==
    <<"<restart>", " ", "R", "e", "s", "t", "a", "r", "t">>

BackToken ==
    <<"<back>", " ", "B", "a", "c", "k">>

MaleButton ==
    <<"<man>", " ", "M", "a", "l", "e">>

FemaleButton ==
    <<"<woman>", " ", "F", "e", "m", "a", "l", "e">>

Sedentary ==
    <<"<couch>", " ", "S", "e", "d", "e", "n", "t", "a", "r", "y">>

LightlyActive ==
    <<"<walk>", " ", "L", "i", "g", "h", "t", "l", "y", " ",
      "a", "c", "t", "i", "v", "e">>

ModeratelyActive ==
    <<"<run>", " ", "M", "o", "d", "e", "r", "a", "t", "e", "l", "y", " ",
      "a", "c", "t", "i", "v", "e">>

VeryActive ==
    <<"<flex>", " ", "V", "e", "r", "y", " ", "a", "c", "t", "i", "v", "e">>

ExtremelyActive ==
    <<"<lift>", " ", "E", "x", "t", "r", "e", "m", "e", "l", "y", " ",
      "a", "c", "t", "i", "v", "e">>

LoseWeight ==
    <<"<down>", " ", "L", "o", "s", "e", " ", "w", "e", "i", "g", "h", "t">>

MaintainWeight ==
    <<"<scale>", " ", "M", "a", "i", "n", "t", "a", "i", "n", " ",
      "w", "e", "i", "g", "h", "t">>

GainMuscle ==
    <<"<up>", " ", "G", "a", "i", "n", " ", "m", "u", "s", "c", "l", "e">>

Bulk ==
    <<"<boom>", " ", "B", "u", "l", "k", " ",
      "(", "a", "g", "g", "r", "e", "s", "s", "i", "v", "e", ")">>

\* The keys of the two catalogs.
ACTIVITY_LEVELS ==
    {Sedentary, LightlyActive, ModeratelyActive, VeryActive, ExtremelyActive}

GOALS == {LoseWeight, MaintainWeight, GainMuscle, Bulk}

is_restart(text) == text = RestartToken

is_back(text) == text = BackToken

---------------------------------------------------------------------------
(* str operations, int() and float().                                      *)

\* `sub in text`
Contains(text, sub) ==
    \E i \in 1..(Len(text) - Len(sub) + 1) :
        SubSeq(text, i, i + Len(sub) - 1) = sub

\* text.replace(old, new) for single characters
Replace(text, old, new) ==
    [i \in 1..Len(text) |-> IF text[i] = old THEN new ELSE text[i]]

RECURSIVE LStrip(_)
LStrip(s) ==
    IF s # <<>> /\ Head(s) = " " THEN LStrip(Tail(s)) ELSE s

RECURSIVE RStrip(_)
RStrip(s) ==
    IF s # <<>> /\ s[Len(s)] = " " THEN RStrip(SubSeq(s, 1, Len(s) - 1)) ELSE s

Strip(s) == RStrip(LStrip(s))

DigitChars == <<"0", "1", "2", "3", "4", "5", "6", "7", "8", "9">>

IsDigit(c) == \E i \in 1..10 : DigitChars[i] = c

DigitValue(c) == (CHOOSE i \in 1..10 : DigitChars[i] = c) - 1

AllDigits(s) == \A i \in 1..Len(s) : IsDigit(s[i])

RECURSIVE DigitsValue(_)
DigitsValue(s) ==
    IF s = <<>> THEN 0
    ELSE 10 * DigitsValue(SubSeq(s, 1, Len(s) - 1)) + DigitValue(s[Len(s)])

RECURSIVE Pow10(_)
Pow10(n) == IF n = 0 THEN 1 ELSE 10 * Pow10(n - 1)

UpperChars ==
    <<"A", "B", "C", "D", "E", "F", "G", "H", "I", "J", "K", "L", "M",
      "N", "O", "P", "Q", "R", "S", "T", "U", "V", "W", "X", "Y", "Z">>

LowerChars ==
    <<"a", "b", "c", "d", "e", "f", "g", "h", "i", "j", "k", "l", "m",
      "n", "o", "p", "q", "r", "s", "t", "u", "v", "w", "x", "y", "z">>

Lower(s) ==
    [i \in 1..Len(s) |->
        IF \E j \in 1..26 : UpperChars[j] = s[i]
        THEN LowerChars[CHOOSE j \in 1..26 : UpperChars[j] = s[i]]
        ELSE s[i]]

HasSign(s) == s # <<>> /\ Head(s) \in {"+", "-"}

Unsigned(s) == IF HasSign(s) THEN Tail(s) ELSE s

SignOf(s) == IF s # <<>> /\ Head(s) = "-" THEN -1 ELSE 1

\* The position of the first c in s, or 0.
IndexOf(s, c) ==
    IF \E i \in 1..Len(s) : s[i] = c
    THEN CHOOSE i \in 1..Len(s) : s[i] = c /\ \A j \in 1..(i - 1) : s[j] # c
    ELSE 0

\* int(text): ok = FALSE is ValueError.
ParseInt(text) ==
    LET s == Strip(text)
        body == Unsigned(s)
    IN  IF body # <<>> /\ AllDigits(body)
        THEN [ok |-> TRUE, v |-> SignOf(s) * DigitsValue(body)]
        ELSE [ok |-> FALSE, v |-> 0]

\* A float value: kind "num" is m / 10^d (d least), "inf" has m = 1 or -1.
NaN == [kind |-> "nan", m |-> 0, d |-> 0]

Inf(sign) == [kind |-> "inf", m |-> sign, d |-> 0]

RECURSIVE Num(_, _)
Num(m, d) ==
    IF d > 0 /\ m % 10 = 0 THEN Num(m \div 10, d - 1)
    ELSE [kind |-> "num", m |-> m, d |-> d]

\* An integer exponent: optional sign, at least one digit.
IsExponent(e) == Unsigned(e) # <<>> /\ AllDigits(Unsigned(e))

\* digits [. digits] with a digit on at least one side
IsDecimal(b) ==
    LET p == IndexOf(b, ".")
        ip == IF p = 0 THEN b ELSE SubSeq(b, 1, p - 1)
        fp == IF p = 0 THEN <<>> ELSE SubSeq(b, p + 1, Len(b))
    IN  AllDigits(ip) /\ AllDigits(fp) /\ Len(ip) + Len(fp) > 0

DecimalValue(b, sign, exp) ==
    LET p == IndexOf(b, ".")
        ip == IF p = 0 THEN b ELSE SubSeq(b, 1, p - 1)
        fp == IF p = 0 THEN <<>> ELSE SubSeq(b, p + 1, Len(b))
        m == sign * DigitsValue(ip \o fp)
    IN  IF exp >= Len(fp) THEN Num(m * Pow10(exp - Len(fp)), 0)
        ELSE Num(m, Len(fp) - exp)

\* float(text): ok = FALSE is ValueError.
ParseFloat(text) ==
    LET s == Lower(Strip(text))
        body == Unsigned(s)
        e == IndexOf(body, "e")
        mant == IF e = 0 THEN body ELSE SubSeq(body, 1, e - 1)
        expo == IF e = 0 THEN <<"0">> ELSE SubSeq(body, e + 1, Len(body))
    IN  IF body = <<"n", "a", "n">>
        THEN [ok |-> TRUE, v |-> NaN]
        ELSE IF body \in {<<"i", "n", "f">>,
                          <<"i", "n", "f", "i", "n", "i", "t", "y">>}
        THEN [ok |-> TRUE, v |-> Inf(SignOf(s))]
        ELSE IF IsDecimal(mant) /\ IsExponent(expo)
        THEN [ok |-> TRUE,
              v |-> DecimalValue(mant, SignOf(s),
                                 SignOf(expo) * DigitsValue(Unsigned(expo)))]
        ELSE [ok |-> FALSE, v |-> NaN]

\* x < n and x > n for a float x and an integer n; both FALSE for nan.
FloatLt(x, n) ==
    CASE x.kind = "nan" -> FALSE
      [] x.kind = "inf" -> x.m < 0
      [] OTHER -> x.m < n * Pow10(x.d)

FloatGt(x, n) ==
    CASE x.kind = "nan" -> FALSE
      [] x.kind = "inf" -> x.m > 0
      [] OTHER -> x.m > n * Pow10(x.d)

---------------------------------------------------------------------------
(* context.user_data: a dictionary, here a function on the keys present.   *)

EmptyDict == [k \in {} |-> 0]

Put(d, key, val) ==
    [k \in (DOMAIN d) \cup {key} |-> IF k = key THEN val ELSE d[k]]

Del(d, key) == [k \in (DOMAIN d) \ {key} |-> d[k]]

Get(d, key, default) == IF key \in DOMAIN d THEN d[key] ELSE default

\* The answer fields, in step order.
Fields == {STEP_NAMES[s] : s \in Steps}

\* The answers held in a dictionary: everything but the cursor.
Answers(d) == [k \in (DOMAIN d) \cap Fields |-> d[k]]

---------------------------------------------------------------------------
(* The calculation engine.  Its numbers are kept exactly, as fractions     *)
(* n / q in lowest terms (q > 0); kind "nan" is the float nan, which every *)
(* operation hands on.                                                     *)

Abs(i) == IF i < 0 THEN -i ELSE i

RECURSIVE GCD(_, _)
GCD(a, b) == IF b = 0 THEN a ELSE GCD(b, a % b)

Rat(n, q) ==
    LET g == GCD(Abs(n), q)
    IN  [kind |-> "num", n |-> n \div g, q |-> q \div g]

RatNaN == [kind |-> "nan", n |-> 0, q |-> 1]

\* The value of a float the wizard stored.
RatOfFloat(x) == IF x.kind = "num" THEN Rat(x.m, Pow10(x.d)) ELSE RatNaN

RatAdd(a, b) ==
    IF a.kind = "nan" \/ b.kind = "nan" THEN RatNaN
    ELSE Rat(a.n * b.q + b.n * a.q, a.q * b.q)

RatMul(a, b) ==
    IF a.kind = "nan" \/ b.kind = "nan" THEN RatNaN
    ELSE Rat(a.n * b.n, a.q * b.q)

\* a >= b; FALSE for nan.
RatGe(a, b) == a.kind = "num" /\ b.kind = "num" /\ a.n * b.q >= b.n * a.q

\* round(x): to the nearest integer, a tie to the even one.
Round(x) ==
    LET lo == x.n \div x.q
        twice == 2 * (x.n % x.q)
    IN  IF twice < x.q THEN lo
        ELSE IF twice > x.q THEN lo + 1
        ELSE IF lo % 2 = 0 THEN lo ELSE lo + 1

RECURSIVE BitLen(_)
BitLen(i) == IF i = 0 THEN 0 ELSE 1 + BitLen(i \div 2)

RECURSIVE LeadingZeros(_, _)
LeadingZeros(n, q) == IF 2 * n >= q THEN 0 ELSE 1 + LeadingZeros(2 * n, q)

RECURSIVE PowMod(_, _, _)
PowMod(b, e, m) == IF e = 0 THEN 1 % m ELSE (b * PowMod(b, e - 1, m)) % m

RECURSIVE IsDyadic(_)
IsDyadic(q) == q = 1 \/ (q % 2 = 0 /\ IsDyadic(q \div 2))

\* The double nearest to x > 0 (53 significant bits) lies above x; x is
\* no double itself.
DoubleAbove(x) ==
    LET whole == x.n \div x.q
        kept == IF whole > 0 THEN 53 - BitLen(whole)
                ELSE 53 + LeadingZeros(x.n, x.q)
        rest == (PowMod(2, kept, x.q) * (x.n % x.q)) % x.q
    IN  2 * rest > x.q

\* round(x, 1) of the double x: to the nearest tenth.  A quotient that
\* lies exactly between two tenths is a double only if its denominator is
\* a power of two, and then goes to the even tenth; otherwise the double
\* lies to one side of it.
Round1(x) ==
    LET t == RatMul(x, Rat(10, 1))
    IN  IF t.q # 2 \/ IsDyadic(x.q) \/ x.n <= 0
        THEN Rat(Round(t), 10)
        ELSE IF DoubleAbove(x) THEN Rat((t.n \div t.q) + 1, 10)
        ELSE Rat(t.n \div t.q, 10)

\* ACTIVITY_LEVELS[activity_key]["multiplier"]
Multiplier(activity_key) ==
    CASE activity_key = Sedentary -> Rat(12, 10)
      [] activity_key = LightlyActive -> Rat(1375, 1000)
      [] activity_key = ModeratelyActive -> Rat(155, 100)
      [] activity_key = VeryActive -> Rat(1725, 1000)
      [] activity_key = ExtremelyActive -> Rat(19, 10)

\* GOALS[goal_key]
Adjustment(goal_key) ==
    CASE goal_key = LoseWeight -> -500
      [] goal_key = MaintainWeight -> 0
      [] goal_key = GainMuscle -> 300
      [] goal_key = Bulk -> 500

\* calculate_bmr with "else" in place of its test of the gender.
calculate_bmr_SameOffset(gender, age, weight, height) ==
    LET bmr == RatAdd(RatAdd(RatMul(Rat(10, 1), RatOfFloat(weight)),
                             RatMul(Rat(625, 100), RatOfFloat(height))),
                      Rat(-5 * age, 1))
    IN  RatAdd(bmr, Rat(-161, 1))

calculate_bmr(gender, age, weight, height) ==
    LET bmr == RatAdd(RatAdd(RatMul(Rat(10, 1), RatOfFloat(weight)),
                             RatMul(Rat(625, 100), RatOfFloat(height))),
                      Rat(-5 * age, 1))
    IN  IF gender = "male" THEN RatAdd(bmr, Rat(5, 1))
        ELSE RatAdd(bmr, Rat(-161, 1))

calculate_tdee(bmr, activity_key) == RatMul(bmr, Multiplier(activity_key))

\* calculate_macros with math.floor in place of round.
calculate_macros_Floors(calories, goal_key) ==
    LET floor(x) == x.n \div x.q
    IN  [protein |-> floor(RatMul(RatMul(calories, Rat(30, 100)), Rat(1, 4))),
         fat |-> floor(RatMul(RatMul(calories, Rat(25, 100)), Rat(1, 9))),
         carbs |-> floor(RatMul(RatMul(calories, Rat(45, 100)), Rat(1, 4)))]

calculate_macros(calories, goal_key) ==
    LET protein_cals == RatMul(calories, Rat(30, 100))
        fat_cals == RatMul(calories, Rat(25, 100))
        carb_cals == RatMul(calories, Rat(45, 100))
    IN  [protein |-> Round(RatMul(protein_cals, Rat(1, 4))),
         fat |-> Round(RatMul(fat_cals, Rat(1, 9))),
         carbs |-> Round(RatMul(carb_cals, Rat(1, 4)))]

\* calculate_water with > in place of >= in its three tests.
calculate_water_StrictTests(weight, activity_key) ==
    LET base == RatMul(RatOfFloat(weight), Rat(35, 1))
        multiplier == Multiplier(activity_key)
        strictly(a, b) == RatGe(a, b) /\ a # b
        bonus == IF strictly(multiplier, Rat(1725, 1000)) THEN 700
                 ELSE IF strictly(multiplier, Rat(155, 100)) THEN 400
                 ELSE IF strictly(multiplier, Rat(1375, 1000)) THEN 200
                 ELSE 0
    IN  Round1(RatMul(RatAdd(base, Rat(bonus, 1)), Rat(1, 1000)))

calculate_water(weight, activity_key) ==
    LET base == RatMul(RatOfFloat(weight), Rat(35, 1))
        multiplier == Multiplier(activity_key)
        bonus == IF RatGe(multiplier, Rat(1725, 1000)) THEN 700
                 ELSE IF RatGe(multiplier, Rat(155, 100)) THEN 400
                 ELSE IF RatGe(multiplier, Rat(1375, 1000)) THEN 200
                 ELSE 0
    IN  Round1(RatMul(RatAdd(base, Rat(bonus, 1)), Rat(1, 1000)))

\* The numbers format_result writes into the message.
format_result(d) ==
    LET bmr == calculate_bmr(d["gender"], d["age"], d["weight"], d["height"])
        tdee == calculate_tdee(bmr, d["activity"])
        goal_calories == RatAdd(tdee, Rat(Adjustment(d["goal"]), 1))
        macros == calculate_macros(goal_calories, d["goal"])
        water == calculate_water(d["weight"], d["activity"])
    IN  [bmr |-> Round(bmr), tdee |-> Round(tdee),
         target |-> Round(goal_calories), protein |-> macros.protein,
         fat |-> macros.fat, carbs |-> macros.carbs, water |-> water]

---------------------------------------------------------------------------
(* database.py.  A call is recorded with its outcome; ok = FALSE is an     *)
(* sqlite3 exception, which the callers do not catch.                      *)

DbCall(name, ok) == [call |-> name, ok |-> ok]

\* INSERT ... ON CONFLICT DO UPDATE into users; fails when sqlite does.
add_or_update_user(dbok) == DbCall("add_or_update_user", dbok)

\* INSERT into calculations, whose columns are NOT NULL: sqlite binds a
\* float nan as NULL, so a nan weight or height (and the nan bmr, tdee and
\* target_calories computed from it) is refused with IntegrityError.
save_calculation(data, dbok) ==
    DbCall("save_calculation",
           dbok /\ data["weight"].kind # "nan" /\ data["height"].kind # "nan")

---------------------------------------------------------------------------
(* The handlers, as functions of user_data, the text and the outcome of    *)
(* the storage calls.  A result holds the new user_data, the value         *)
(* returned (ret; meaningless when exc), whether the handler raised, the   *)
(* messages sent, the storage calls made, the path taken (op), and the     *)
(* calculation: the data handed to save_calculation (saved) and the        *)
(* numbers of the result message (shown), each <<>> or one element.        *)

NoCalc == [saved |-> <<>>, shown |-> <<>>]

Return(d, ret, msgs, calls, op) ==
    [ud |-> d, ret |-> ret, exc |-> FALSE, sent |-> msgs, db |-> calls,
     op |-> op, calc |-> NoCalc]

Raise(d, msgs, calls, op) ==
    [ud |-> d, ret |-> END, exc |-> TRUE, sent |-> msgs, db |-> calls,
     op |-> op, calc |-> NoCalc]

\* start without the call of line 265.
start_SkipsUpsert(d, dbok) ==
    Return(Put(EmptyDict, "current_step", GENDER), GENDER,
           <<ASK_STEP[GENDER]>>, <<>>, "start")

start(d, dbok) ==
    LET call == add_or_update_user(dbok)
    IN  IF ~call.ok
        THEN Raise(EmptyDict, <<>>, <<call>>, "start")
        ELSE Return(Put(EmptyDict, "current_step", GENDER), GENDER,
                    <<ASK_STEP[GENDER]>>, <<call>>, "start")

\* back without the deletion of the field (lines 278-280 left out).
back_KeepsField(d) ==
    LET current == Get(d, "current_step", GENDER)
        prev == current - 1
    IN  IF prev < GENDER
        THEN Return(d, GENDER, <<"first_step_notice", ASK_STEP[GENDER]>>,
                    <<>>, "back")
        ELSE Return(Put(d, "current_step", prev),
                    prev, <<ASK_STEP[prev]>>, <<>>, "back")

\* back whose first-step branch comes after the write of line 282.
back_WritesAtFirstStep(d) ==
    LET current == Get(d, "current_step", GENDER)
        prev == current - 1
    IN  IF prev < GENDER
        THEN Return(Put(d, "current_step", prev), GENDER,
                    <<"first_step_notice", ASK_STEP[GENDER]>>, <<>>, "back")
        ELSE Return(Put(Del(d, STEP_NAMES[prev]), "current_step", prev),
                    prev, <<ASK_STEP[prev]>>, <<>>, "back")

back(d) ==
    LET current == Get(d, "current_step", GENDER)
        prev == current - 1
    IN  IF prev < GENDER
        THEN Return(d, GENDER, <<"first_step_notice", ASK_STEP[GENDER]>>,
                    <<>>, "back")
        ELSE Return(Put(Del(d, STEP_NAMES[prev]), "current_step", prev),
                    prev, <<ASK_STEP[prev]>>, <<>>, "back")

\* The two lines every accepting handler ends with.
Store(d, step, val) ==
    Return(Put(Put(d, STEP_NAMES[step], val), "current_step", step + 1),
           step + 1, <<ASK_STEP[step + 1]>>, <<>>, "accept")

\* The error reply of a handler, which returns its own step.
\* An error branch that moves the cursor on all the same.
Reject_Advances(d, step, msg) ==
    Return(Put(d, "current_step", step + 1), step + 1, <<msg>>, <<>>,
           "reject")

Reject(d, step, msg) == Return(d, step, <<msg>>, <<>>, "reject")

gender_handler(d, text, dbok) ==
    IF is_restart(text) THEN start(d, dbok)
    ELSE IF is_back(text) THEN back(d)
    ELSE Store(d, GENDER,
               IF Contains(text, <<"M", "a", "l", "e">>) THEN "male"
               ELSE "female")

age_handler(d, text, dbok) ==
    IF is_restart(text) THEN start(d, dbok)
    ELSE IF is_back(text) THEN back(d)
    ELSE LET age == ParseInt(text)
         IN  IF ~age.ok \/ age.v < 10 \/ age.v > 100
             THEN Reject(d, AGE, "age_error")
             ELSE Store(d, AGE, age.v)

weight_handler(d, text, dbok) ==
    IF is_restart(text) THEN start(d, dbok)
    ELSE IF is_back(text) THEN back(d)
    ELSE LET weight == ParseFloat(Replace(text, ",", "."))
         IN  IF ~weight.ok \/ FloatLt(weight.v, 30) \/ FloatGt(weight.v, 300)
             THEN Reject(d, WEIGHT, "weight_error")
             ELSE Store(d, WEIGHT, weight.v)

height_handler(d, text, dbok) ==
    IF is_restart(text) THEN start(d, dbok)
    ELSE IF is_back(text) THEN back(d)
    ELSE LET height == ParseFloat(Replace(text, ",", "."))
         IN  IF ~height.ok \/ FloatLt(height.v, 100) \/ FloatGt(height.v, 250)
             THEN Reject(d, HEIGHT, "height_error")
             ELSE Store(d, HEIGHT, height.v)

activity_handler(d, text, dbok) ==
    IF is_restart(text) THEN start(d, dbok)
    ELSE IF is_back(text) THEN back(d)
    ELSE IF text \notin ACTIVITY_LEVELS
         THEN Reject(d, ACTIVITY, "choose_option")
         ELSE Store(d, ACTIVITY, text)

\* The keys goal_handler and format_result read besides "goal".
Needed == {"gender", "age", "weight", "height", "activity"}

\* {**context.user_data, 'bmr': ..., 'tdee': ..., 'target_calories': ...}
CalcData(d) ==
    LET bmr == calculate_bmr(d["gender"], d["age"], d["weight"], d["height"])
        tdee == calculate_tdee(bmr, d["activity"])
        target == RatAdd(tdee, Rat(Adjustment(d["goal"]), 1))
    IN  Put(Put(Put(d, "bmr", bmr), "tdee", tdee), "target_calories", target)

\* goal_handler with the catalog test (line 396) ahead of the two token
\* tests (lines 391-394).
goal_handler_ValidatesFirst(d, text, dbok) ==
    IF text \notin GOALS
    THEN Return(d, GOAL, <<"choose_option">>, <<>>, "reject")
    ELSE LET d1 == Put(d, "goal", text)
         IN  IF ~(Needed \subseteq DOMAIN d1)
             THEN Raise(d1, <<>>, <<>>, "complete")
             ELSE LET data == CalcData(d1)
                      call == save_calculation(data, dbok)
                  IN  IF ~call.ok
                      THEN [Raise(d1, <<>>, <<call>>, "complete")
                                EXCEPT !.calc.saved = <<data>>]
                      ELSE [Return(d1, END, <<"result">>, <<call>>,
                                   "complete")
                                EXCEPT !.calc = [saved |-> <<data>>,
                                                 shown |->
                                                     <<format_result(d1)>>]]

goal_handler(d, text, dbok) ==
    IF is_restart(text) THEN start(d, dbok)
    ELSE IF is_back(text) THEN back(d)
    ELSE IF text \notin GOALS
         THEN Reject(d, GOAL, "choose_option")
         ELSE LET d1 == Put(d, "goal", text)
              IN  IF ~(Needed \subseteq DOMAIN d1)
                  THEN Raise(d1, <<>>, <<>>, "complete")      \* KeyError
                  ELSE LET data == CalcData(d1)
                           call == save_calculation(data, dbok)
                       IN  IF ~call.ok
                           THEN [Raise(d1, <<>>, <<call>>, "complete")
                                     EXCEPT !.calc.saved = <<data>>]
                           ELSE [Return(d1, END, <<"result">>, <<call>>,
                                        "complete")
                                     EXCEPT !.calc =
                                         [saved |-> <<data>>,
                                          shown |-> <<format_result(d1)>>]]

cancel(d) == Return(d, END, <<"cancelled">>, <<>>, "cancel")

---------------------------------------------------------------------------
(* The state machine.                                                      *)
(*   conv[<<chat, user>>]   the ConversationHandler's state for the key    *)
(*                          (per_chat and per_user), END when there is     *)
(*                          no conversation                                *)
(*   user_data[user]        context.user_data                              *)
(*   sent                   the messages the last update was answered with *)
(*   db                     the storage calls the last update made         *)
(*   calc                   the calculation the last update made           *)
(*   last                   the last update: its key, the conversation     *)
(*                          state it found (step), its text, the path its  *)
(*                          handler took (op), whether the handler raised  *)
(*                          (exc), and whether it was a back that directly *)
(*                          followed an accepted answer (undo)             *)

Users == {"u1", "u2"}

Chats == {"c1", "c2"}

Keys == Chats \X Users

\* The conversation the wizard is run in.
Wizard == {<<"c1", "u1">>}

StartCmd == <<"/", "s", "t", "a", "r", "t">>

BackCmd == <<"/", "b", "a", "c", "k">>

CancelCmd == <<"/", "c", "a", "n", "c", "e", "l">>

\* The texts a user sends that are no commands.
Texts ==
    {RestartToken, BackToken, MaleButton, FemaleButton,
     <<"a", "b", "c">>,
     <<"9">>, <<"1", "0">>, <<"1", "0", "0">>,
     <<"2", "9", ".", "9">>, <<"3", "0", ",", "0">>,
     <<"3", "0", "0">>, <<"3", "0", "0", ".", "1">>, <<"2", "5", "0">>,
     <<"n", "a", "n">>}
    \cup ACTIVITY_LEVELS \cup GOALS

\* What is sent with no conversation going on, besides /start and the
\* restart text.
IdleTexts == {BackCmd, CancelCmd, MaleButton, <<"1", "0", "0">>, LoseWeight}

Init ==
    /\ conv = [k \in Keys |-> END]
    /\ user_data = [u \in Users |-> EmptyDict]
    /\ sent = <<>>
    /\ db = <<>>
    /\ calc = NoCalc
    /\ last = [key |-> <<"c1", "u1">>, step |-> END, text |-> <<>>,
               op |-> "none", exc |-> FALSE, undo |-> FALSE]

\* Dispatch with one dictionary for all users (bot_data in place of
\* user_data).
Dispatch_SharedData(k, text, r) ==
    /\ user_data' = [u \in Users |-> r.ud]
    /\ conv' = IF r.exc THEN conv ELSE [conv EXCEPT ![k] = r.ret]
    /\ sent' = r.sent
    /\ db' = r.db
    /\ calc' = r.calc
    /\ last' = [key |-> k, step |-> conv[k], text |-> text, op |-> r.op,
                exc |-> r.exc,
                undo |-> r.op = "back" /\ last.op = "accept" /\ last.key = k]

\* What Application.process_update does with a handler's result: the
\* handler has mutated user_data; its return value becomes the state of
\* the conversation, unless it raised, and then the state is kept.
Dispatch(k, text, r) ==
    /\ user_data' = [user_data EXCEPT ![k[2]] = r.ud]
    /\ conv' = IF r.exc THEN conv ELSE [conv EXCEPT ![k] = r.ret]
    /\ sent' = r.sent
    /\ db' = r.db
    /\ calc' = r.calc
    /\ last' = [key |-> k, step |-> conv[k], text |-> text, op |-> r.op,
                exc |-> r.exc,
                undo |-> r.op = "back" /\ last.op = "accept" /\ last.key = k]

\* /start: an entry point, and a fallback in every state.
StartCommand(k, dbok) ==
    /\ k \in Keys
    /\ Dispatch(k, StartCmd, start(user_data[k[2]], dbok))

\* The restart text with no conversation: the second entry point.
RestartEntry(k, dbok) ==
    /\ conv[k] = END
    /\ Dispatch(k, RestartToken, start(user_data[k[2]], dbok))

\* /back and /cancel: fallbacks, tried only inside a conversation.
BackCommand(k) ==
    /\ conv[k] # END
    /\ Dispatch(k, BackCmd, back(user_data[k[2]]))

CancelCommand(k) ==
    /\ conv[k] # END
    /\ Dispatch(k, CancelCmd, cancel(user_data[k[2]]))

\* A text that is no command, in each state.
GenderText(k, text, dbok) ==
    /\ conv[k] = GENDER
    /\ Dispatch(k, text, gender_handler(user_data[k[2]], text, dbok))

AgeText(k, text, dbok) ==
    /\ conv[k] = AGE
    /\ Dispatch(k, text, age_handler(user_data[k[2]], text, dbok))

WeightText(k, text, dbok) ==
    /\ conv[k] = WEIGHT
    /\ Dispatch(k, text, weight_handler(user_data[k[2]], text, dbok))

HeightText(k, text, dbok) ==
    /\ conv[k] = HEIGHT
    /\ Dispatch(k, text, height_handler(user_data[k[2]], text, dbok))

ActivityText(k, text, dbok) ==
    /\ conv[k] = ACTIVITY
    /\ Dispatch(k, text, activity_handler(user_data[k[2]], text, dbok))

GoalText(k, text, dbok) ==
    /\ conv[k] = GOAL
    /\ Dispatch(k, text, goal_handler(user_data[k[2]], text, dbok))

\* With no conversation, /back, /cancel and every text but the restart
\* text match no handler of the ConversationHandler.
Unhandled(k, text) ==
    /\ conv[k] = END
    /\ text # RestartToken
    /\ sent' = <<>>
    /\ db' = <<>>
    /\ calc' = NoCalc
    /\ last' = [key |-> k, step |-> END, text |-> text, op |-> "ignored",
                exc |-> FALSE, undo |-> FALSE]
    /\ UNCHANGED <<conv, user_data>>

\* One update of conversation k, its text drawn from T inside a
\* conversation and from I outside.
UpdateOver(k, T, I) ==
    \/ \E dbok \in BOOLEAN : StartCommand(k, dbok)
    \/ \E dbok \in BOOLEAN : RestartEntry(k, dbok)
    \/ BackCommand(k)
    \/ CancelCommand(k)
    \/ \E text \in T, dbok \in BOOLEAN : GenderText(k, text, dbok)
    \/ \E text \in T, dbok \in BOOLEAN : AgeText(k, text, dbok)
    \/ \E text \in T, dbok \in BOOLEAN : WeightText(k, text, dbok)
    \/ \E text \in T, dbok \in BOOLEAN : HeightText(k, text, dbok)
    \/ \E text \in T, dbok \in BOOLEAN : ActivityText(k, text, dbok)
    \/ \E text \in T, dbok \in BOOLEAN : GoalText(k, text, dbok)
    \/ \E text \in I : Unhandled(k, text)

Update(k) == UpdateOver(k, Texts, IdleTexts)

Next == \E k \in Wizard : Update(k)

Spec == Init /\ [][Next]_vars

\* Two users, each in a private chat, their updates interleaved in any
\* order; one valid and one invalid text per step.
TwoUsers == {<<"c1", "u1">>, <<"c2", "u2">>}

FewTexts ==
    {RestartToken, BackToken, MaleButton, <<"a", "b", "c">>,
     <<"1", "0", "0">>, Sedentary, LoseWeight}

FewIdleTexts == {CancelCmd, <<"1", "0", "0">>}

NextUsers == \E k \in TwoUsers : UpdateOver(k, FewTexts, FewIdleTexts)

SpecUsers == Init /\ [][NextUsers]_vars

\* One user running the wizard in two chats, the updates of the two
\* chats interleaved in any order: two conversations, one user_data.
TwoChats == {<<"c1", "u1">>, <<"c2", "u1">>}

NextChats == \E k \in TwoChats : UpdateOver(k, FewTexts, FewIdleTexts)

SpecChats == Init /\ [][NextChats]_vars

\* The calculation on its own: the wizard stands at Goal after a start and
\* five accepted answers, drawn from the sets below, and the goal is sent.
CalcGenders == {"male", "female"}

CalcAges == {ParseInt(t).v : t \in {<<"1", "0">>, <<"2", "2">>,
                                    <<"1", "0", "0">>}}

CalcWeights ==
    {ParseFloat(t).v : t \in {<<"3", "0">>, <<"7", "5", ".", "5">>,
                              <<"1", "0", "0">>, <<"3", "0", "0">>}}

CalcHeights ==
    {ParseFloat(t).v : t \in {<<"1", "0", "0">>, <<"1", "7", "5", ".", "5">>,
                              <<"1", "8", "0">>, <<"2", "5", "0">>}}

InitCalc ==
    \E gender \in CalcGenders, age \in CalcAges, weight \in CalcWeights,
       height \in CalcHeights, activity \in ACTIVITY_LEVELS :
        /\ conv = [k \in Keys |-> IF k \in Wizard THEN GOAL ELSE END]
        /\ user_data =
               [u \in Users |->
                   IF u = "u1"
                   THEN [gender |-> gender, age |-> age, weight |-> weight,
                         height |-> height, activity |-> activity,
                         current_step |-> GOAL]
                   ELSE EmptyDict]
        /\ sent = <<ASK_STEP[GOAL]>>
        /\ db = <<>>
        /\ calc = NoCalc
        /\ last = [key |-> <<"c1", "u1">>, step |-> ACTIVITY,
                   text |-> activity, op |-> "accept", exc |-> FALSE,
                   undo |-> FALSE]

NextCalc ==
    \E k \in Wizard, text \in Texts, dbok \in BOOLEAN : GoalText(k, text, dbok)

SpecCalc == InitCalc /\ [][NextCalc]_vars

---------------------------------------------------------------------------
(* The session of a key, as the claims speak of it: the step cursor is the *)
(* state of the conversation, the AnswerSet is the answers in user_data.   *)

\* The fields of the steps strictly before step s.
Before(s) == {STEP_NAMES[t] : t \in {x \in Steps : x < s}}

AnswerSet(k) == Answers(user_data[k[2]])

\* The handler the ConversationHandler runs for a text in a state.
HandlerOf(step, d, text, dbok) ==
    CASE step = GENDER -> gender_handler(d, text, dbok)
      [] step = AGE -> age_handler(d, text, dbok)
      [] step = WEIGHT -> weight_handler(d, text, dbok)
      [] step = HEIGHT -> height_handler(d, text, dbok)
      [] step = ACTIVITY -> activity_handler(d, text, dbok)
      [] step = GOAL -> goal_handler(d, text, dbok)

\* The handler the application runs for an update, by the entry points,
\* states and fallbacks of the ConversationHandler; an update that matches
\* none is dropped.
Routed(step, d, text, dbok) ==
    IF text = StartCmd THEN start(d, dbok)
    ELSE IF step = END
    THEN IF text = RestartToken THEN start(d, dbok)
         ELSE Return(d, END, <<>>, <<>>, "ignored")
    ELSE IF text = BackCmd THEN back(d)
    ELSE IF text = CancelCmd THEN cancel(d)
    ELSE HandlerOf(step, d, text, dbok)

\* The error reply of each step.
ErrorReply(step) ==
    CASE step = AGE -> "age_error"
      [] step = WEIGHT -> "weight_error"
      [] step = HEIGHT -> "height_error"
      [] OTHER -> "choose_option"

\* How many of the calls went to the named function of database.py.
CallsTo(name, calls) ==
    Cardinality({i \in 1..Len(calls) : calls[i].call = name})

StorageFailed(calls) == \E i \in 1..Len(calls) : ~calls[i].ok

\* A float that is a number within lo..hi.
InRange(x, lo, hi) == x.kind = "num" /\ ~FloatLt(x, lo) /\ ~FloatGt(x, hi)

\* A text that is a valid answer to a step, by the domains of the wizard:
\* a gender button, an age in 10..100, a weight in 30..300, a height in
\* 100..250, a label of the activity or the goal catalog.
IsValidFor(step, text) ==
    CASE step = GENDER -> text \in {MaleButton, FemaleButton}
      [] step = AGE ->
             ParseInt(text).ok /\ ParseInt(text).v \in 10..100
      [] step = WEIGHT ->
             LET w == ParseFloat(Replace(text, ",", "."))
             IN  w.ok /\ InRange(w.v, 30, 300)
      [] step = HEIGHT ->
             LET h == ParseFloat(Replace(text, ",", "."))
             IN  h.ok /\ InRange(h.v, 100, 250)
      [] step = ACTIVITY -> text \in ACTIVITY_LEVELS
      [] step = GOAL -> text \in GOALS

\* Answers to the five steps before Goal, each in its domain.
ValidAnswers(d) ==
    /\ Needed \subseteq DOMAIN d
    /\ d["gender"] \in {"male", "female"}
    /\ d["age"] \in 10..100
    /\ InRange(d["weight"], 30, 300)
    /\ InRange(d["height"], 100, 250)
    /\ d["activity"] \in ACTIVITY_LEVELS

\* From the state (step, d) of a session the result is reached by valid
\* answers to this step and the later ones, the storage working.
RECURSIVE CanComplete(_, _)
CanComplete(step, d) ==
    \/ step = END
    \/ \E text \in {t \in Texts : IsValidFor(step, t)} :
           LET r == HandlerOf(step, d, text, TRUE)
           IN  ~r.exc /\ r.op \in {"accept", "complete"}
               /\ CanComplete(r.ret, r.ud)

\* The integer i is a nearest integer to the fraction x.
IsNearest(i, x) == 2 * Abs(i * x.q - x.n) <= x.q

\* The fractions x and y differ by at most the fraction bound.
Within(x, y, bound) ==
    /\ RatGe(RatAdd(y, bound), x)
    /\ RatGe(RatAdd(x, bound), y)

\* The activity catalog in its order.
ActivityOrder ==
    <<Sedentary, LightlyActive, ModeratelyActive, VeryActive, ExtremelyActive>>

\* A text that names a gender: it holds the word male or female.
IndicatesGender(text) == Contains(Lower(text), <<"m", "a", "l", "e">>)

---------------------------------------------------------------------------
\* C1: in every reachable state, the answer fields present in a running
\* session are exactly the fields of the steps strictly before its current
\* step.
C1_AnswerSetInvariant ==
    \A k \in Keys :
        conv[k] \in Steps => DOMAIN AnswerSet(k) = Before(conv[k])

\* C2: every start (the command, the restart text in any state or with no
\* conversation) leaves the session at Gender with an empty AnswerSet.
C2_StartResets ==
    [][last'.op = "start" =>
          /\ conv'[last'.key] = GENDER
          /\ DOMAIN Answers(user_data'[last'.key[2]]) = {}]_vars

\* C3: a text the handler of the step rejects (among them "abc", "9" and
\* "300" as an age, and a text that is no catalog label at Activity and
\* Goal) changes neither user_data nor the step, makes no storage call and
\* is answered with the error reply of that same step.
C3_RejectIsNoOp ==
    [][/\ last'.op = "reject" =>
             /\ user_data' = user_data
             /\ conv' = conv
             /\ conv'[last'.key] = last'.step
             /\ sent' = <<ErrorReply(last'.step)>>
             /\ db' = <<>>
       /\ (/\ last'.step = AGE
           /\ last'.text \in {<<"a", "b", "c">>, <<"9">>, <<"3", "0", "0">>})
              => last'.op = "reject"
       /\ (/\ last'.step = ACTIVITY
           /\ last'.text \in Texts \ (ACTIVITY_LEVELS
                                       \cup {RestartToken, BackToken}))
              => last'.op = "reject"
       /\ (/\ last'.step = GOAL
           /\ last'.text \in Texts \ (GOALS \cup {RestartToken, BackToken}))
              => last'.op = "reject"]_vars

C3_Witness ==
    /\ last.op = "reject"
    /\ last.step = AGE
    /\ last.text = <<"a", "b", "c">>
    /\ conv[last.key] = AGE

\* C4: in every reachable state at a step S of Gender..Activity, for every
\* text the handler of S accepts, the accepted submit followed by back
\* gives the session from before the submit: the cursor at S, the field of
\* S absent, every earlier field with its value.
C4_BackUndoesSubmit ==
    \A k \in Keys :
        conv[k] \in Steps \ {GOAL} =>
            \A text \in Texts, dbok \in BOOLEAN :
                LET d == user_data[k[2]]
                    r == HandlerOf(conv[k], d, text, dbok)
                    b == back(r.ud)
                IN  r.op = "accept" =>
                        /\ r.ret = conv[k] + 1
                        /\ STEP_NAMES[conv[k]] \in DOMAIN r.ud
                        /\ ~b.exc
                        /\ b.ret = conv[k]
                        /\ STEP_NAMES[conv[k]] \notin DOMAIN b.ud
                        /\ Answers(b.ud) = Answers(d)

\* A back that directly followed an accepted weight, two fields kept.
C4_Witness ==
    /\ last.undo
    /\ last.step = HEIGHT
    /\ conv[last.key] = WEIGHT
    /\ DOMAIN AnswerSet(last.key) = {"gender", "age"}

\* C5: an accepted answer moves the cursor to the successor step (Goal to
\* the end of the conversation), back to the predecessor (staying at
\* Gender), start to Gender; a rejected or unhandled text leaves it; and
\* the prompt sent last is the one of the new cursor.
C5_CursorMoves ==
    [][LET k == last'.key
           op == last'.op
       IN  /\ op = "accept" =>
                 /\ conv'[k] = conv[k] + 1
                 /\ sent' = <<ASK_STEP[conv'[k]]>>
           /\ op = "complete" => conv'[k] = END
           /\ op = "back" =>
                 /\ conv'[k] = IF conv[k] = GENDER THEN GENDER
                               ELSE conv[k] - 1
                 /\ sent'[Len(sent')] = ASK_STEP[conv'[k]]
           /\ op = "start" =>
                 /\ conv'[k] = GENDER
                 /\ sent' = <<ASK_STEP[GENDER]>>
           /\ op \in {"reject", "ignored"} => conv'[k] = conv[k]]_vars

\* C6: back at Gender, by the back text or /back, is answered with the
\* first-step notice and the Gender prompt, and changes neither the step
\* nor user_data: a session at Gender with an empty AnswerSet stays so.
C6_BackAtGender ==
    [][(last'.op = "back" /\ last'.step = GENDER) =>
          /\ last'.text \in {BackToken, BackCmd}
          /\ sent' = <<"first_step_notice", ASK_STEP[GENDER]>>
          /\ conv' = conv
          /\ conv'[last'.key] = GENDER
          /\ user_data' = user_data
          /\ Answers(user_data'[last'.key[2]]) = AnswerSet(last'.key)]_vars

C6_Witness ==
    /\ last.op = "back"
    /\ last.step = GENDER
    /\ last.text = BackToken
    /\ conv[last.key] = GENDER
    /\ DOMAIN AnswerSet(last.key) = {}

\* C7: at Gender, a text that is neither token and names no gender is
\* rejected: nothing is stored and the session stays at Gender.
C7_GenderStrict ==
    [][(/\ last'.step = GENDER
        /\ last'.text \in Texts \ {RestartToken, BackToken}
        /\ ~IndicatesGender(last'.text)) =>
          /\ last'.op = "reject"
          /\ "gender" \notin DOMAIN user_data'[last'.key[2]]
          /\ conv'[last'.key] = GENDER]_vars

\* C8: every stored answer is in its domain: the age an integer in
\* 10..100, the weight a number in 30..300, the height a number in
\* 100..250, the activity and the goal a label of their catalogs.
C8_StoredInDomain ==
    \A u \in Users :
        LET d == user_data[u]
        IN  /\ "gender" \in DOMAIN d => d["gender"] \in {"male", "female"}
            /\ "age" \in DOMAIN d => d["age"] \in 10..100
            /\ "weight" \in DOMAIN d => InRange(d["weight"], 30, 300)
            /\ "height" \in DOMAIN d => InRange(d["height"], 100, 250)
            /\ "activity" \in DOMAIN d => d["activity"] \in ACTIVITY_LEVELS
            /\ "goal" \in DOMAIN d => d["goal"] \in GOALS

\* C9: in each of the six states the restart text does what /start does
\* and the back text what /back does, whatever the step validates;
\* neither is answered as a rejected answer, and neither is ever the
\* stored activity or goal.
C9_TokensFirst ==
    [][LET k == last'.key
           d == user_data[k[2]]
       IN  /\ (last'.step \in Steps /\ last'.text = RestartToken) =>
                 /\ last'.op = "start"
                 /\ \E dbok \in BOOLEAN :
                       /\ user_data'[k[2]] = start(d, dbok).ud
                       /\ sent' = start(d, dbok).sent
                       /\ db' = start(d, dbok).db
                       /\ last'.exc = start(d, dbok).exc
                       /\ ~last'.exc => conv'[k] = start(d, dbok).ret
           /\ (last'.step \in Steps /\ last'.text = BackToken) =>
                 /\ last'.op = "back"
                 /\ user_data'[k[2]] = back(d).ud
                 /\ sent' = back(d).sent
                 /\ conv'[k] = back(d).ret
           /\ \A f \in {"activity", "goal"} :
                 f \in DOMAIN user_data'[k[2]] =>
                     user_data'[k[2]][f] \notin {RestartToken, BackToken}]_vars

\* The restart text sent at Goal.
C9_Witness ==
    /\ last.step = GOAL
    /\ last.text = RestartToken
    /\ last.op = "start"
    /\ ~last.exc
    /\ conv[last.key] = GENDER

\* C10: when the storage call of an update fails, a valid goal is still
\* answered with the result and ends the wizard, and a start still resets
\* the session to Gender with an empty AnswerSet.
C10_StorageFailureHarmless ==
    [][StorageFailed(db') =>
          /\ last'.op = "complete" =>
                /\ sent' = <<"result">>
                /\ conv'[last'.key] = END
          /\ last'.op = "start" =>
                /\ sent' = <<ASK_STEP[GENDER]>>
                /\ conv'[last'.key] = GENDER
                /\ DOMAIN Answers(user_data'[last'.key[2]]) = {}]_vars

\* C11: an update calls save_calculation exactly once when it is a goal
\* label of the catalog sent at the Goal step, and never otherwise: not
\* for a rejected text, a back, a start or restart, or a cancel.
C11_PersistIffGoalAccepted ==
    [][CallsTo("save_calculation", db') =
           IF last'.step = GOAL /\ last'.text \in GOALS THEN 1 ELSE 0]_vars

\* C12: an update calls add_or_update_user exactly once when it is a start
\* (the command, or the restart text at any step or after completion), and
\* never otherwise.
C12_UpsertIffStart ==
    [][CallsTo("add_or_update_user", db') =
           IF last'.text \in {StartCmd, RestartToken} THEN 1 ELSE 0]_vars

\* C12 witness: the restart text at the Goal step made its one call.
C12_Witness ==
    /\ last.text = RestartToken
    /\ last.step = GOAL
    /\ last.op = "start"
    /\ CallsTo("add_or_update_user", db) = 1

\* C13: a cancel leaves no answer field and no cursor behind, and ends the
\* conversation; after it nothing but a start is handled.
C13_CancelDiscards ==
    [][/\ last'.op = "cancel" =>
              /\ conv'[last'.key] = END
              /\ user_data'[last'.key[2]] = EmptyDict
       /\ (last.op = "cancel" /\ last'.text \notin {StartCmd, RestartToken})
              => last'.op = "ignored"]_vars

\* C14: a text sent when no conversation is going on (never started, or
\* after the result) starts a fresh session: the cursor at Gender, no
\* answers, the Gender prompt.
C14_SubmitHealsToStart ==
    [][(last'.step = END /\ last'.text \in Texts \ {RestartToken}) =>
           /\ conv'[last'.key] = GENDER
           /\ Answers(user_data'[last'.key[2]]) = EmptyDict
           /\ sent' = <<ASK_STEP[GENDER]>>]_vars

\* C15: an update of one user leaves the cursor and the answers of every
\* other user as they were, and what it does to its own user's session is
\* fixed by that session, the text and the outcome of the storage call
\* alone; so each user's session runs as it would with no other user.
C15_UsersIndependent ==
    [][/\ \A k \in Keys :
              k[2] # last'.key[2] =>
                  /\ conv'[k] = conv[k]
                  /\ user_data'[k[2]] = user_data[k[2]]
       /\ \E dbok \in BOOLEAN :
              LET k == last'.key
                  r == Routed(conv[k], user_data[k[2]], last'.text, dbok)
              IN  /\ user_data'[k[2]] = r.ud
                  /\ conv'[k] = IF r.exc THEN conv[k] ELSE r.ret]_vars

\* C15 witness: the second user answers a step while the first is two
\* steps further on with answers of its own.
C15_Witness ==
    /\ last.key = <<"c2", "u2">>
    /\ last.op = "accept"
    /\ conv[<<"c2", "u2">>] = AGE
    /\ conv[<<"c1", "u1">>] = HEIGHT
    /\ user_data["u2"]["gender"] = "male"
    /\ user_data["u1"]["gender"] = "female"
    /\ "weight" \in DOMAIN user_data["u1"]

\* C16: the wizard completes.  After a start and valid answers to the
\* first five steps, a valid goal ends the session with the result
\* computed from exactly these six values; and from every state of a
\* running session the result is still reached by valid answers to the
\* current step and the later ones.
C16_HappyPathCompletes ==
    \A k \in Wizard :
        LET d == user_data[k[2]]
        IN  /\ conv[k] # END => CanComplete(conv[k], d)
            /\ (conv[k] = GOAL /\ ValidAnswers(d)) =>
                   \A text \in GOALS, dbok \in BOOLEAN :
                       LET r == goal_handler(d, text, dbok)
                       IN  /\ ~r.exc
                           /\ r.ret = END
                           /\ r.sent = <<"result">>
                           /\ r.calc.shown =
                                  <<format_result(Put(Answers(d), "goal",
                                                      text))>>

\* C17: the data handed to save_calculation hold the answers and
\* bmr = 10*weight + 6.25*height - 5*age + (5 for male, -161 otherwise),
\* tdee = bmr times the multiplier of the activity (1.2, 1.375, 1.55,
\* 1.725, 1.9), target = tdee plus the adjustment of the goal (-500, 0,
\* +300, +500); male, 22, 75.5 kg, 180 cm, 1.55, -500 give 1775, 2751.25
\* and 2251.25.
C17_EnergyFormulas ==
    calc.saved # <<>> =>
        LET data == calc.saved[1]
            d == user_data[last.key[2]]
            bmr == RatAdd(RatAdd(RatAdd(RatMul(Rat(10, 1),
                                               RatOfFloat(d["weight"])),
                                        RatMul(Rat(625, 100),
                                               RatOfFloat(d["height"]))),
                                 Rat(-5 * d["age"], 1)),
                          IF d["gender"] = "male" THEN Rat(5, 1)
                          ELSE Rat(-161, 1))
            mult == CASE d["activity"] = Sedentary -> Rat(12, 10)
                      [] d["activity"] = LightlyActive -> Rat(1375, 1000)
                      [] d["activity"] = ModeratelyActive -> Rat(155, 100)
                      [] d["activity"] = VeryActive -> Rat(1725, 1000)
                      [] d["activity"] = ExtremelyActive -> Rat(19, 10)
            adj == CASE d["goal"] = LoseWeight -> -500
                     [] d["goal"] = MaintainWeight -> 0
                     [] d["goal"] = GainMuscle -> 300
                     [] d["goal"] = Bulk -> 500
            tdee == RatMul(bmr, mult)
        IN  /\ \A f \in Fields : data[f] = d[f]
            /\ data["bmr"] = bmr
            /\ data["tdee"] = tdee
            /\ data["target_calories"] = RatAdd(tdee, Rat(adj, 1))
            /\ (/\ d["gender"] = "male" /\ d["age"] = 22
                /\ d["weight"] = Num(755, 1) /\ d["height"] = Num(180, 0)
                /\ d["activity"] = ModeratelyActive
                /\ d["goal"] = LoseWeight)
                   => /\ data["bmr"] = Rat(1775, 1)
                      /\ data["tdee"] = Rat(275125, 100)
                      /\ data["target_calories"] = Rat(225125, 100)

\* C17 witness: the example of the claim was completed and stored.
C17_Witness ==
    /\ last.op = "complete"
    /\ ~last.exc
    /\ calc.saved # <<>>
    /\ calc.saved[1]["gender"] = "male"
    /\ calc.saved[1]["age"] = 22
    /\ calc.saved[1]["weight"] = Num(755, 1)
    /\ calc.saved[1]["height"] = Num(180, 0)
    /\ calc.saved[1]["activity"] = ModeratelyActive
    /\ calc.saved[1]["goal"] = LoseWeight
    /\ calc.saved[1]["target_calories"] = Rat(225125, 100)

\* C18: the water shown is weight * 35 mL plus a bonus of 0, 200, 400, 700,
\* 700 mL along the activity catalog, in liters rounded to one decimal;
\* 75.5 kg at 1.55 gives 3042.5 mL, shown as 3.0 L; and along the catalog
\* the water never goes down.
C18_WaterFormula ==
    calc.shown # <<>> =>
        LET d == user_data[last.key[2]]
            bonus == <<0, 200, 400, 700, 700>>
            i == CHOOSE j \in 1..5 : ActivityOrder[j] = d["activity"]
            ml == RatAdd(RatMul(RatOfFloat(d["weight"]), Rat(35, 1)),
                         Rat(bonus[i], 1))
            water == calc.shown[1].water
            tenths == RatMul(water, Rat(10, 1))
        IN  /\ tenths.q = 1
            /\ IsNearest(tenths.n, RatMul(ml, Rat(1, 100)))
            /\ (d["weight"] = Num(755, 1) /\ d["activity"] = ModeratelyActive)
                   => ml = Rat(30425, 10) /\ water = Rat(30, 10)
            /\ \A j \in 1..4 :
                   RatGe(calculate_water(d["weight"], ActivityOrder[j + 1]),
                         calculate_water(d["weight"], ActivityOrder[j]))

\* C18 witness: a result for 75.5 kg at the middle activity shows 3.0 L.
C18_Witness ==
    /\ calc.shown # <<>>
    /\ user_data[last.key[2]]["weight"] = Num(755, 1)
    /\ user_data[last.key[2]]["activity"] = ModeratelyActive
    /\ calc.shown[1].water = Rat(3, 1)

\* C19: protein, fat and carbohydrates are 30 %, 25 % and 45 % of the
\* target at 4, 9 and 4 kcal per gram, each rounded to a nearest integer on
\* its own; the calories they stand for differ from the target by at most
\* 8.5 kcal.
C19_MacroSplit ==
    calc.shown # <<>> =>
        LET target == calc.saved[1]["target_calories"]
            shown == calc.shown[1]
        IN  /\ IsNearest(shown.protein,
                         RatMul(RatMul(Rat(30, 100), target), Rat(1, 4)))
            /\ IsNearest(shown.fat,
                         RatMul(RatMul(Rat(25, 100), target), Rat(1, 9)))
            /\ IsNearest(shown.carbs,
                         RatMul(RatMul(Rat(45, 100), target), Rat(1, 4)))
            /\ Within(Rat(4 * shown.protein + 9 * shown.fat
                              + 4 * shown.carbs, 1),
                      target, Rat(85, 10))

\* C19 witness: a target of 2251.25 kcal is shown as 169 g, 63 g and 253 g,
\* which stand for 2255 kcal.
C19_Witness ==
    /\ calc.shown # <<>>
    /\ calc.saved[1]["target_calories"] = Rat(225125, 100)
    /\ calc.shown[1].protein = 169
    /\ calc.shown[1].fat = 63
    /\ calc.shown[1].carbs = 253

\* C20: a back at a step after Gender removes the answer of the step before
\* it and no other, moves the cursor to that step, computes nothing and
\* makes no storage call, whatever backs and rejected texts came before.
C20_BackFrame ==
    [][(last'.op = "back" /\ last'.step > GENDER) =>
           /\ conv'[last'.key] = last'.step - 1
           /\ Answers(user_data'[last'.key[2]]) =
                  Del(AnswerSet(last'.key), STEP_NAMES[last'.step - 1])
           /\ calc' = NoCalc
           /\ db' = <<>>]_vars

\* C21: whenever a step handler gets a text, the step it belongs to (the
\* state of the conversation of that chat and user) is the current_step
\* stored for the user, also when the user runs the wizard in two chats;
\* and after a start in one chat no handler of another chat of the user
\* stores an answer into the session the start made.
C21_CursorAgreement ==
    [][LET k == last'.key
           d == user_data[k[2]]
       IN  /\ (last'.step # END
               /\ last'.text \notin {StartCmd, BackCmd, CancelCmd}) =>
                  /\ "current_step" \in DOMAIN d
                  /\ d["current_step"] = last'.step
           /\ (last.op = "start" /\ ~last.exc /\ k # last.key
               /\ k[2] = last.key[2]) =>
                  last'.op \notin {"accept", "complete"}]_vars

\* C22: whenever the Goal handler gets a label of the goal catalog, the
\* user's session holds gender, age, weight, height and activity, and the
\* handler does not fail on an absent key before its storage call.
C22_CompletionHasFields ==
    [][(last'.step = GOAL /\ last'.text \in GOALS) =>
           /\ Needed \subseteq DOMAIN user_data[last'.key[2]]
           /\ ~(last'.exc /\ db' = <<>>)]_vars

=============================================================================
